---- MODULE Spec2Model ----
(***************************************************************************)
(* GitAudit portfolio analyzer (src/app.py): the data fetcher, the scoring *)
(* engine, the recommendation generator, the AI assessment adapter and the *)
(* analysis run that chains them.                                          *)
(*                                                                         *)
(* Time is counted in ticks, TicksPerDay ticks to a day.  Decimal numbers  *)
(* that the program rounds to one place are kept in tenths.                *)
(***************************************************************************)
EXTENDS Integers, Sequences, FiniteSets, TLC

VARIABLES
    GITHUB_TOKEN,       \* module level, line 79: None when the variable is unset
    GEMINI_KEY,         \* module level, line 80: None when the variable is unset
    now,                \* the wall clock read by datetime.now(), in ticks
    repo,               \* the record handed to the scoring functions
    evals,              \* the evaluations of the scoring functions made so far
    pc,                 \* position of the analysis run
    username,           \* the text of the username input
    account,            \* what the repository host holds for the username
    requests,           \* the network requests issued so far
    calls,              \* the pipeline stages invoked so far, in order
    messages,           \* the user-visible messages emitted so far, in order
    headers,            \* get_enhanced_github_data: the request headers
    repos,              \* get_enhanced_github_data: the accumulated list
    page,               \* get_enhanced_github_data: the next page number
    enhanced_repos,     \* get_enhanced_github_data: the enriched list
    data,               \* the run: what the fetcher returned
    portfolio_score,    \* the run: first component of the score stage
    dimension_scores,   \* the run: second component of the score stage
    model,              \* the run: what get_working_model returned
    response,           \* analyze_with_ai: what generate_content produced
    ai_result,          \* the run: what analyze_with_ai returned
    recommendations     \* the run: what get_actionable_recommendations returned

vars == <<GITHUB_TOKEN, GEMINI_KEY, now, repo, evals, pc, username, account,
          requests, calls, messages, headers, repos, page, enhanced_repos, data,
          portfolio_score, dimension_scores, model, response, ai_result,
          recommendations>>

runVars == <<GITHUB_TOKEN, GEMINI_KEY, pc, username, account, requests, calls, messages,
             headers, repos, page, enhanced_repos, data, portfolio_score,
             dimension_scores, model, response, ai_result, recommendations>>

(***************************************************************************)
(* Bounds of the model.                                                    *)
(***************************************************************************)
TicksPerDay == 2        \* clock resolution
Now0 == 2000            \* the clock when the program starts
MaxElapsed == 3         \* ticks the clock may advance while being watched
MaxEvals == 2           \* evaluations of the scoring functions that are kept
MaxRepos == 2           \* repositories of an account whose answers vary freely

(***************************************************************************)
(* Python values.                                                          *)
(***************************************************************************)
\* None, where a string is expected
None == "<None>"

\* dict.get(key, default)
Get(d, key, default) == IF key \in DOMAIN d THEN d[key] ELSE default

\* truth value of a string-or-None (description, homepage, a credential)
Truthy(v) == v \notin {None, ""}

\* truth value of a flag that may be absent
Flag(d, key) == IF key \in DOMAIN d THEN d[key] ELSE FALSE

min(a, b) == IF a < b THEN a ELSE b

\* A timestamp text: its layout and the instant it denotes.  "iso" is the
\* layout %Y-%m-%dT%H:%M:%SZ, "date" is %Y-%m-%d, "none" is None.
Timestamp(t) == [layout |-> "iso", t |-> t]
DateOnly(t) == [layout |-> "date", t |-> t]
NoTimestamp == [layout |-> "none", t |-> 0]

\* the default of repo.get('pushed_at', '2000-01-01')
DefaultPushedAt == DateOnly(0)

\* datetime.strptime(s, '%Y-%m-%dT%H:%M:%SZ'): the exception it raises, or "none"
strptime_exc(s) ==
    CASE s.layout = "none" -> "TypeError"
      [] s.layout = "date" -> "ValueError"
      [] OTHER -> "none"

\* (datetime.now() - pushed_at).days: whole days, rounded towards minus infinity
days_between(t1, t0) == (t1 - t0) \div TicksPerDay

(***************************************************************************)
(* Scoring engine, lines 99-134.                                           *)
(***************************************************************************)
calculate_documentation_score_neg(r) ==
    LET s1 == IF Flag(r, "readme_exists") THEN 40 ELSE 0
        s2 == IF Truthy(Get(r, "description", None)) THEN 20 ELSE 0
        s3 == IF Truthy(Get(r, "homepage", None)) THEN 10 ELSE 0
        s4 == IF Flag(r, "has_wiki") THEN 15 ELSE 0
        s5 == IF Flag(r, "has_pages") THEN 15 ELSE 0
    IN  min(s1 + s2 + s3 + s4 - s5, 100)

calculate_documentation_score(r) ==
    LET s1 == IF Flag(r, "readme_exists") THEN 40 ELSE 0
        s2 == IF Truthy(Get(r, "description", None)) THEN 20 ELSE 0
        s3 == IF Truthy(Get(r, "homepage", None)) THEN 10 ELSE 0
        s4 == IF Flag(r, "has_wiki") THEN 15 ELSE 0
        s5 == IF Flag(r, "has_pages") THEN 15 ELSE 0
    IN  min(s1 + s2 + s3 + s4 + s5, 100)

calculate_code_quality_score(r) ==
    LET s1 == IF Get(r, "languages_count", 0) > 0 THEN 20 ELSE 0
        s2 == IF Flag(r, "has_issues") THEN 15 ELSE 0
        s3 == IF Flag(r, "has_projects") THEN 15 ELSE 0
        s4 == IF Get(r, "size", 0) > 0 THEN 25 ELSE 0
        s5 == IF Get(r, "stargazers_count", 0) > 0 THEN 25 ELSE 0
    IN  min(s1 + s2 + s3 + s4 + s5, 100)

\* lines 125-128 with limits that include the seventh, thirtieth and ninetieth day
freshness_inclusive(days_since_update) ==
    IF days_since_update <= 7 THEN 40
    ELSE IF days_since_update <= 30 THEN 30
    ELSE IF days_since_update <= 90 THEN 20
    ELSE 10

\* lines 125-128: the freshness amount of a number of days since the last push
freshness(days_since_update) ==
    IF days_since_update < 7 THEN 40
    ELSE IF days_since_update < 30 THEN 30
    ELSE IF days_since_update < 90 THEN 20
    ELSE 10

\* The mutant counts calendar days instead of elapsed 24-hour periods.
days_since_update_calendar(r) ==
    (now \div TicksPerDay) - (Get(r, "pushed_at", DefaultPushedAt).t \div TicksPerDay)

\* line 123
days_since_update(r) ==
    days_between(now, Get(r, "pushed_at", DefaultPushedAt).t)

\* lines 119-134: [exc, value]; value is meaningful when exc = "none".
\* The function reads the clock.
calculate_activity_score(r) ==
    LET pushed_at == Get(r, "pushed_at", DefaultPushedAt)
        exc == strptime_exc(pushed_at)
        s0 == freshness(days_since_update(r))
        s1 == IF Get(r, "open_issues_count", 0) > 0 THEN 20 ELSE 0
        s2 == IF Get(r, "forks_count", 0) > 0 THEN 20 ELSE 0
        s3 == IF Get(r, "watchers_count", 0) > 0 THEN 20 ELSE 0
    IN  IF exc # "none" THEN [exc |-> exc, value |-> 0]
        ELSE [exc |-> "none", value |-> min(s0 + s1 + s2 + s3, 100)]

(***************************************************************************)
(* The repository host, as the fetcher sees it.                            *)
(***************************************************************************)
RepoName(j) == "repo" \o ToString(j)

\* A repository as the host lists it: every attribute the program reads.
PlainRepo(j) ==
    [name |-> RepoName(j), description |-> "x", homepage |-> None,
     has_wiki |-> TRUE, has_pages |-> FALSE, has_issues |-> TRUE,
     has_projects |-> FALSE, size |-> 10, stargazers_count |-> 0,
     forks_count |-> 0, watchers_count |-> 0, open_issues_count |-> 1,
     pushed_at |-> Timestamp(Now0 - 10 * TicksPerDay)]

\* The same repository listed with pushed_at null.
NullPushRepo(j) == [PlainRepo(j) EXCEPT !.pushed_at = NoTimestamp]

\* The same repository listed without the pushed_at key.
NoPushRepo(j) ==
    [k \in DOMAIN PlainRepo(j) \ {"pushed_at"} |-> PlainRepo(j)[k]]

RawKinds == {"plain", "nullpush", "nopush"}

RawRepo(kind, j) ==
    CASE kind = "nullpush" -> NullPushRepo(j)
      [] kind = "nopush" -> NoPushRepo(j)
      [] OTHER -> PlainRepo(j)

\* Sizes of the large accounts: more than one page, more than the cap.
BigTotals == {31, 60, 61}

\* An account: how many repositories the host lists for the user, the kinds
\* of the first of them (the others are plain), and whether the host answers
\* every enrichment call with success (steady) or answers freely.
SmallAccounts ==
    UNION {{[total |-> n, kinds |-> ks, steady |-> FALSE] :
              ks \in [1..n -> RawKinds]} : n \in 0..MaxRepos}

BigAccounts ==
    {[total |-> n, kinds |-> <<>>, steady |-> TRUE] : n \in BigTotals}

Accounts == SmallAccounts \cup BigAccounts

NoAccount == [total |-> 0, kinds |-> <<>>, steady |-> TRUE]

\* the repositories the host lists for an account, most recently updated first
host_listing(a) ==
    [j \in 1..a.total |->
        RawRepo(IF j <= Len(a.kinds) THEN a.kinds[j] ELSE "plain", j)]

\* outcome of one HTTP call: status 200, another status, or an exception
HttpOutcomes == {"ok", "non200", "exception"}

\* what the host may answer to an enrichment call of the current account
EnrichOutcomes == IF account.steady THEN {"ok"} ELSE HttpOutcomes

\* line 175: per_page=30
per_page == 30

\* line 173: the cap of the accumulation loop
repo_cap == 50

\* the page of the listing the host returns for page number p
page_of(listing, p) ==
    SubSeq(listing, (p - 1) * per_page + 1, min(p * per_page, Len(listing)))

\* A request as it leaves the program: the host, the endpoint and the value of
\* the Authorization header (None when the request carries no such header).
Request(host, endpoint, authorization) ==
    [host |-> host, endpoint |-> endpoint, authorization |-> authorization]

\* line 162
make_headers == GITHUB_TOKEN

\* requests.get(url, headers=headers) to the repository host
github_get(endpoint, hdrs) == Request("github", endpoint, hdrs)

\* line 161, with the mutant that only recognises an unset variable
token_missing_unset_only == GITHUB_TOKEN = None

token_missing == ~ Truthy(GITHUB_TOKEN)

\* What the fetcher returns: a sentinel or the bundle.
Sentinel(tag) == [tag |-> tag, user |-> None, repos |-> <<>>, orgs |-> <<>>]
Bundle(user, rs, orgs) == [tag |-> "bundle", user |-> user, repos |-> rs, orgs |-> orgs]
Unset == Sentinel("unset")

\* lines 136-146: the README text, or None
get_readme_content(outcome) == IF outcome = "ok" THEN "# readme" ELSE None

\* lines 148-157: the weekly statistics, or None
get_commit_activity(outcome) == IF outcome = "ok" THEN "weeks" ELSE None

\* line 196: the languages of the repository, by name
languages_of(outcome) == IF outcome = "ok" THEN {"Python"} ELSE {}

\* lines 188-201: the record after the three enrichment calls
enrich(raw, readme_outcome, lang_outcome, commit_outcome) ==
    LET readme == get_readme_content(readme_outcome)
        languages == languages_of(lang_outcome)
    IN  [readme_exists |-> readme # None,
         readme_preview |-> readme,
         languages |-> languages,
         languages_count |-> Cardinality(languages),
         commit_activity |-> get_commit_activity(commit_outcome)] @@ raw

\* lines 204-206: the record with its three scores
with_scores(r) ==
    [doc_score |-> calculate_documentation_score(r),
     code_score |-> calculate_code_quality_score(r),
     activity_score |-> calculate_activity_score(r).value] @@ r

(***************************************************************************)
(* Aggregate score, lines 223-285.  Scores are in tenths.                  *)
(***************************************************************************)
RECURSIVE sum_of(_, _)
sum_of(rs, key) ==
    IF rs = <<>> THEN 0 ELSE Get(Head(rs), key, 0) + sum_of(Tail(rs), key)

\* round(num / den, 1), in tenths: to the nearest tenth, a tie to the even one
round1(num, den) ==
    LET q == (10 * num) \div den
        r == (10 * num) % den
    IN  IF 2 * r < den THEN q
        ELSE IF 2 * r > den THEN q + 1
        ELSE IF q % 2 = 0 THEN q ELSE q + 1

DimensionNames ==
    {"Documentation Quality", "Code Structure & Best Practices",
     "Activity Consistency", "Repository Organization", "Project Impact",
     "Technical Depth"}

\* the empty dict
EmptyDict == [k \in {} |-> 0]

\* lines 238-241
org_score(d) ==
    (IF d.orgs # <<>> THEN 20 ELSE 0)
    + (IF Len(d.repos) >= 5 THEN 20 ELSE 0)
    + (IF Len(d.repos) >= 3 THEN 20 ELSE 0)

\* lines 247-249 without the cap of line 249
impact_score_x5_uncapped(d) ==
    sum_of(d.repos, "stargazers_count") * 2 + sum_of(d.repos, "forks_count")

\* lines 247-249, times 5: min(100, (total_stars * 2 + total_forks) / 5)
impact_score_x5(d) ==
    min(500, sum_of(d.repos, "stargazers_count") * 2 + sum_of(d.repos, "forks_count"))

\* lines 252-256
tech_score(d) ==
    LET languages == UNION {Get(d.repos[j], "languages", {}) : j \in DOMAIN d.repos}
    IN  min(40, Cardinality(languages) * 8)

\* lines 258-265: the six weights, in hundredths, each under the name of the
\* dimension lines 268-273 multiply it with
weights ==
    [k \in DimensionNames |->
        CASE k = "Documentation Quality" -> 20
          [] k = "Code Structure & Best Practices" -> 20
          [] k = "Activity Consistency" -> 15
          [] k = "Repository Organization" -> 15
          [] k = "Project Impact" -> 15
          [] OTHER -> 15]

\* the sum of the weights: the floats 0.2 + 0.2 + 0.15 + 0.15 + 0.15 + 0.15 add
\* to 1.0 without residue, as the hundredths add to 100
RECURSIVE sum_weights(_)
sum_weights(ks) ==
    IF ks = {} THEN 0
    ELSE LET k == CHOOSE x \in ks : TRUE IN weights[k] + sum_weights(ks \ {k})

\* round(final_score, 1) of line 285, in tenths.  final_score is a sum of six
\* float products: off a tie it rounds as the exact value does; on a tie the
\* float sum lies a rounding error on either side of it, so both neighbouring
\* tenths are outcomes
round1_float(num, den) ==
    LET q == (10 * num) \div den
        r == (10 * num) % den
    IN  IF 2 * r < den THEN {q}
        ELSE IF 2 * r > den THEN {q + 1}
        ELSE {q, q + 1}

\* lines 223-285 with a zero-filled map at lines 226 and 230
calculate_portfolio_score_zero_map(d) ==
    IF d.tag # "bundle" \/ d.repos = <<>>
    THEN [scores |-> {0}, dims |-> [k \in DimensionNames |-> 0], divisions |-> 0]
    ELSE
        LET n == Len(d.repos)
            doc == sum_of(d.repos, "doc_score")
            code == sum_of(d.repos, "code_score")
            act == sum_of(d.repos, "activity_score")
            \* the weighted sum of lines 267-274, over the denominator 500 * n
            final_num ==
                5 * (weights["Documentation Quality"] * doc
                     + weights["Code Structure & Best Practices"] * code
                     + weights["Activity Consistency"] * act)
                + n * (5 * weights["Repository Organization"] * org_score(d)
                       + 5 * weights["Technical Depth"] * tech_score(d)
                       + weights["Project Impact"] * impact_score_x5(d))
        IN  [scores |-> round1_float(final_num, 500 * n),
             divisions |-> 4,
             dims |->
                [k \in DimensionNames |->
                    CASE k = "Documentation Quality" -> round1(doc, n)
                      [] k = "Code Structure & Best Practices" -> round1(code, n)
                      [] k = "Activity Consistency" -> round1(act, n)
                      [] k = "Repository Organization" -> 10 * org_score(d)
                      [] k = "Project Impact" -> round1(impact_score_x5(d), 5)
                      [] OTHER -> 10 * tech_score(d)]]

\* lines 223-285: [scores, dims, divisions]; scores is the set of values line
\* 285 can give, divisions the number of divisions on the path taken (lines
\* 233, 234, 235 and 249)
calculate_portfolio_score(d) ==
    IF d.tag # "bundle" \/ d.repos = <<>>
    THEN [scores |-> {0}, dims |-> EmptyDict, divisions |-> 0]
    ELSE
        LET n == Len(d.repos)
            doc == sum_of(d.repos, "doc_score")
            code == sum_of(d.repos, "code_score")
            act == sum_of(d.repos, "activity_score")
            \* the weighted sum of lines 267-274, over the denominator 500 * n
            final_num ==
                5 * (weights["Documentation Quality"] * doc
                     + weights["Code Structure & Best Practices"] * code
                     + weights["Activity Consistency"] * act)
                + n * (5 * weights["Repository Organization"] * org_score(d)
                       + 5 * weights["Technical Depth"] * tech_score(d)
                       + weights["Project Impact"] * impact_score_x5(d))
        IN  [scores |-> round1_float(final_num, 500 * n),
             divisions |-> 4,
             dims |->
                [k \in DimensionNames |->
                    CASE k = "Documentation Quality" -> round1(doc, n)
                      [] k = "Code Structure & Best Practices" -> round1(code, n)
                      [] k = "Activity Consistency" -> round1(act, n)
                      [] k = "Repository Organization" -> 10 * org_score(d)
                      [] k = "Project Impact" -> round1(impact_score_x5(d), 5)
                      [] OTHER -> 10 * tech_score(d)]]

(***************************************************************************)
(* Recommendation generator, lines 287-325.                                *)
(***************************************************************************)
Recommendation(name, issue, priority) ==
    [repo |-> name, issue |-> issue, priority |-> priority]

\* lines 308-323: the recommendations of the repositories, in list order
RECURSIVE repo_recommendations(_)
repo_recommendations(rs) ==
    IF rs = <<>> THEN <<>>
    ELSE
        LET r == Head(rs)
            missing == IF Get(r, "doc_score", 0) < 40
                       THEN <<Recommendation(r.name, "Missing Documentation", "High")>>
                       ELSE <<>>
            low == IF Get(r, "stargazers_count", 0) = 0 /\ Get(r, "forks_count", 0) = 0
                   THEN <<Recommendation(r.name, "Low Impact", "Medium")>>
                   ELSE <<>>
        IN  missing \o low \o repo_recommendations(Tail(rs))

\* lines 291, 299: the subscripts raise KeyError on a map without the keys
recommendations_raise(dims) ==
    ~ ({"Documentation Quality", "Activity Consistency"} \subseteq DOMAIN dims)

\* lines 287-325, for a dimension map that has the keys
get_actionable_recommendations(d, dims) ==
    LET general_doc == IF dims["Documentation Quality"] < 600
                       THEN <<Recommendation("General", "Poor Documentation", "High")>>
                       ELSE <<>>
        general_act == IF dims["Activity Consistency"] < 500
                       THEN <<Recommendation("General", "Inconsistent Activity", "Medium")>>
                       ELSE <<>>
        all == general_doc \o general_act \o repo_recommendations(d.repos)
    IN  SubSeq(all, 1, min(5, Len(all)))

(***************************************************************************)
(* AI assessment adapter, lines 87-97 and 327-390.                         *)
(***************************************************************************)
RequiredKeys ==
    {"score", "verdict", "role", "summary", "skills", "soft_skills", "pros",
     "cons", "interview_questions", "archive_repos", "improve_repos"}

\* A text is a sequence of chunks: the two fence markers, white space, prose,
\* and JSON documents (an object with some keys, an array, the literal null,
\* an object cut short).
Chunk(kind, keys) == [kind |-> kind, keys |-> keys]
FenceJson == Chunk("fence_json", {})     \* three backquotes and the word json
Fence == Chunk("fence", {})              \* three backquotes
Space == Chunk("space", {})
Prose == Chunk("prose", {})
Object(keys) == Chunk("object", keys)
Array == Chunk("array", {})                \* an array that is not empty
Null == Chunk("null", {})
CutObject == Chunk("cut", {})

\* Python values an assessment can be
PyNone == [type |-> "NoneType", keys |-> {}]
PyDict(keys) == [type |-> "dict", keys |-> keys]
PyList == [type |-> "list", keys |-> {}]

\* str.replace(marker, "")
RECURSIVE replace(_, _)
replace(text, marker) ==
    IF text = <<>> THEN <<>>
    ELSE IF Head(text) = marker THEN replace(Tail(text), marker)
    ELSE <<Head(text)>> \o replace(Tail(text), marker)

RECURSIVE lstrip(_)
lstrip(text) ==
    IF text # <<>> /\ Head(text) = Space THEN lstrip(Tail(text)) ELSE text

RECURSIVE rstrip(_)
rstrip(text) ==
    IF text # <<>> /\ text[Len(text)] = Space
    THEN rstrip(SubSeq(text, 1, Len(text) - 1)) ELSE text

\* str.strip()
strip(text) == rstrip(lstrip(text))

\* line 386
strip_fences(text) == strip(replace(replace(text, FenceJson), Fence))

\* json.loads succeeds on exactly one complete document
json_decodes(text) ==
    Len(text) = 1 /\ text[1].kind \in {"object", "array", "null"}

\* json.loads(text), for a text that decodes
json_loads(text) ==
    CASE text[1].kind = "object" -> PyDict(text[1].keys)
      [] text[1].kind = "array" -> PyList
      [] OTHER -> PyNone

\* The documents a response may hold and the texts built around them.
Documents ==
    {Object(RequiredKeys), Object(RequiredKeys \ {"verdict"}), Object({}),
     Array, Null, CutObject}

Texts ==
    {<<>>, <<Prose>>}
    \cup UNION {{<<v>>,
                 <<FenceJson, Space, v, Space, Fence>>,
                 <<Fence, Space, v, Space, Fence>>,
                 <<Space, v, Space>>,
                 <<Prose, Space, v>>} : v \in Documents}

NoResponse == <<>>

\* what the enumeration of models may give: a generation-capable model of the
\* flash tier, none of them, or an exception
ModelOutcomes == {"flash", "no_flash", "exception"}

\* lines 92-97
model_name_for(outcome) ==
    IF outcome = "flash" THEN "models/gemini-2.0-flash" ELSE "models/gemini-1.5-flash"

\* The mutant falls back to the hardcoded name without a credential.
get_working_model_blind(outcome) == model_name_for(outcome)

\* lines 87-97
get_working_model(outcome) ==
    IF ~ Truthy(GEMINI_KEY) THEN None ELSE model_name_for(outcome)

(***************************************************************************)
(* The analysis run, lines 409-442, and the functions it calls.            *)
(***************************************************************************)
Usernames == {"", "octocat"}
OrgLists == {<<>>, <<"org">>}

\* lines 219-221: an exception inside the fetcher
fetch_fails ==
    /\ messages' = Append(messages, "Error fetching data")
    /\ data' = Sentinel("ERROR")
    /\ pc' = "dispatch"

\* lines 409-423: a click on the analyze button starts a fresh script run.
\* load_lottieurl (lines 82-85) fetches the animation without a handler, so an
\* exception of that request ends the script run.
Click ==
    /\ pc \in {"idle", "stopped", "raised", "dashboard"}
    /\ \E u \in Usernames, a \in Accounts :
        /\ username' = u
        /\ account' = a
        /\ requests' = {Request("lottie", "animation", None)}
        /\ \E outcome \in HttpOutcomes :
            IF outcome = "exception"
            THEN messages' = <<>> /\ pc' = "raised"
            ELSE IF u = ""
            THEN messages' = <<"Please enter a GitHub username!">> /\ pc' = "stopped"
            ELSE messages' = <<>> /\ pc' = "fetch"
    /\ calls' = <<>>
    /\ headers' = None
    /\ repos' = <<>>
    /\ page' = 1
    /\ enhanced_repos' = <<>>
    /\ data' = Unset
    /\ portfolio_score' = 0
    /\ dimension_scores' = EmptyDict
    /\ model' = None
    /\ response' = NoResponse
    /\ ai_result' = PyNone
    /\ recommendations' = <<>>
    /\ UNCHANGED <<GITHUB_TOKEN, GEMINI_KEY, now, repo, evals>>

\* lines 159-172: the credential check and the user lookup
FetchUser ==
    /\ pc = "fetch"
    /\ calls' = Append(calls, "get_enhanced_github_data")
    /\ IF token_missing
       THEN /\ data' = Sentinel("NO_TOKEN")
            /\ pc' = "dispatch"
            /\ UNCHANGED <<headers, requests, messages, repos, page>>
       ELSE /\ headers' = make_headers
            /\ requests' = requests \cup {github_get("user", headers')}
            /\ \E outcome \in HttpOutcomes :
                CASE outcome = "ok" ->
                        /\ repos' = <<>>
                        /\ page' = 1
                        /\ pc' = "pages"
                        /\ UNCHANGED <<data, messages>>
                  [] outcome = "non200" ->
                        /\ data' = Sentinel("ERROR")
                        /\ pc' = "dispatch"
                        /\ UNCHANGED <<messages, repos, page>>
                  [] OTHER ->
                        /\ fetch_fails
                        /\ UNCHANGED <<repos, page>>
    /\ UNCHANGED <<GITHUB_TOKEN, GEMINI_KEY, now, repo, evals, username, account,
                   enhanced_repos, portfolio_score, dimension_scores, model,
                   response, ai_result, recommendations>>

\* lines 173-182: one pass of the accumulation loop
FetchPage ==
    /\ pc = "pages"
    /\ requests' = requests \cup {github_get("repos", headers)}
    /\ \E outcome \in HttpOutcomes :
        CASE outcome = "ok" ->
                LET page_repos == page_of(host_listing(account), page)
                IN  IF page_repos = <<>>
                    THEN /\ pc' = "enrich"
                         /\ UNCHANGED <<repos, page, data, messages>>
                    ELSE /\ repos' = repos \o page_repos
                         /\ page' = page + 1
                         /\ pc' = IF Len(repos') < repo_cap THEN "pages" ELSE "enrich"
                         /\ UNCHANGED <<data, messages>>
          [] outcome = "non200" ->
                /\ pc' = "enrich"
                /\ UNCHANGED <<repos, page, data, messages>>
          [] OTHER ->
                /\ fetch_fails
                /\ UNCHANGED <<repos, page>>
    /\ UNCHANGED <<GITHUB_TOKEN, GEMINI_KEY, now, repo, evals, username, account,
                   calls, headers, enhanced_repos, portfolio_score,
                   dimension_scores, model, response, ai_result, recommendations>>

\* lines 186-208: the enrichment of the next repository
Enrich ==
    /\ pc = "enrich"
    /\ Len(enhanced_repos) < Len(repos)
    /\ \E readme_outcome \in EnrichOutcomes, lang_outcome \in EnrichOutcomes,
          commit_outcome \in EnrichOutcomes :
        LET r == enrich(repos[Len(enhanced_repos) + 1], readme_outcome,
                        lang_outcome, commit_outcome)
            raised == lang_outcome = "exception"
                      \/ calculate_activity_score(r).exc # "none"
        IN  /\ requests' = requests
                    \cup {github_get("readme", headers), github_get("languages", headers)}
                    \cup (IF lang_outcome = "exception" THEN {}
                          ELSE {github_get("commit_activity", headers)})
            /\ IF raised
               THEN /\ fetch_fails
                    /\ UNCHANGED enhanced_repos
               ELSE /\ enhanced_repos' = Append(enhanced_repos, with_scores(r))
                    /\ UNCHANGED <<data, messages, pc>>
    /\ UNCHANGED <<GITHUB_TOKEN, GEMINI_KEY, now, repo, evals, username, account,
                   calls, headers, repos, page, portfolio_score,
                   dimension_scores, model, response, ai_result, recommendations>>

\* lines 210-218: the organizations, and the bundle
FetchOrgs ==
    /\ pc = "enrich"
    /\ Len(enhanced_repos) = Len(repos)
    /\ requests' = requests \cup {github_get("orgs", headers)}
    /\ \E outcome \in HttpOutcomes, listed \in OrgLists :
        IF outcome = "exception"
        THEN fetch_fails
        ELSE /\ data' = Bundle(username, enhanced_repos,
                               IF outcome = "ok" THEN listed ELSE <<>>)
             /\ pc' = "dispatch"
             /\ UNCHANGED messages
    /\ UNCHANGED <<GITHUB_TOKEN, GEMINI_KEY, now, repo, evals, username, account,
                   calls, headers, repos, page, enhanced_repos, portfolio_score,
                   dimension_scores, model, response, ai_result, recommendations>>

\* lines 431-441: the stage the run enters when a stage returns.  The mutant
\* runs the recommendation stage ahead of the assessment.
next_stage_recommend_first(stage) ==
    CASE stage = "score" -> "recommend"
      [] stage = "recommend" -> "model"
      [] stage = "model" -> "ai"
      [] OTHER -> "render"

next_stage(stage) ==
    CASE stage = "score" -> "model"
      [] stage = "model" -> "ai"
      [] stage = "ai" -> "recommend"
      [] OTHER -> "render"

\* lines 425-429: what the run does with what the fetcher returned.  The
\* mutant lets the ERROR sentinel through to the analysis.
run_branch_error_falls_through(d) ==
    CASE d.tag = "NO_TOKEN" -> "no_token"
      [] OTHER -> "analyze"

run_branch(d) ==
    CASE d.tag = "ERROR" -> "error"
      [] d.tag = "NO_TOKEN" -> "no_token"
      [] OTHER -> "analyze"

UserNotFoundMessage == "User not found or API rate limit exceeded"
NoTokenMessage == "GitHub Token not configured"

\* lines 425-429
Dispatch ==
    /\ pc = "dispatch"
    /\ CASE run_branch(data) = "error" ->
                /\ messages' = Append(messages, UserNotFoundMessage)
                /\ pc' = "stopped"
         [] run_branch(data) = "no_token" ->
                /\ messages' = Append(messages, NoTokenMessage)
                /\ pc' = "stopped"
         [] OTHER ->
                /\ pc' = "score"
                /\ UNCHANGED messages
    /\ UNCHANGED <<GITHUB_TOKEN, GEMINI_KEY, now, repo, evals, username, account,
                   requests, calls, headers, repos, page, enhanced_repos, data,
                   portfolio_score, dimension_scores, model, response,
                   ai_result, recommendations>>

\* line 431
Score ==
    /\ pc = "score"
    /\ calls' = Append(calls, "calculate_portfolio_score")
    /\ portfolio_score' \in calculate_portfolio_score(data).scores
    /\ dimension_scores' = calculate_portfolio_score(data).dims
    /\ pc' = next_stage("score")
    /\ UNCHANGED <<GITHUB_TOKEN, GEMINI_KEY, now, repo, evals, username, account,
                   requests, messages, headers, repos, page, enhanced_repos,
                   data, model, response, ai_result, recommendations>>

\* line 434 and lines 87-97
GetModel ==
    /\ pc = "model"
    /\ calls' = Append(calls, "get_working_model")
    /\ requests' = IF ~ Truthy(GEMINI_KEY) THEN requests
                   ELSE requests \cup {Request("genai", "list_models", None)}
    /\ \E outcome \in ModelOutcomes : model' = get_working_model(outcome)
    /\ pc' = next_stage("model")
    /\ UNCHANGED <<GITHUB_TOKEN, GEMINI_KEY, now, repo, evals, username, account,
                   messages, headers, repos, page, enhanced_repos, data,
                   portfolio_score, dimension_scores, response, ai_result,
                   recommendations>>

\* lines 389-390 without the st.error call of line 389
ai_fails_silent ==
    /\ UNCHANGED messages
    /\ ai_result' = PyNone
    /\ pc' = next_stage("ai")

\* lines 389-390: the handler of the adapter's try block
ai_fails ==
    /\ messages' = Append(messages, "AI Analysis Error")
    /\ ai_result' = PyNone
    /\ pc' = next_stage("ai")

\* line 435 and lines 327-385: the adapter up to the model's answer
AICall ==
    /\ pc = "ai"
    /\ calls' = Append(calls, "analyze_with_ai")
    /\ IF ~ Truthy(model)
       THEN /\ ai_result' = PyNone
            /\ pc' = next_stage("ai")
            /\ UNCHANGED <<requests, messages, response>>
       ELSE /\ requests' = requests \cup {Request("genai", "generate_content", None)}
            /\ \/ /\ ai_fails
                  /\ UNCHANGED response
               \/ /\ \E text \in Texts : response' = text
                  /\ pc' = "ai_parse"
                  /\ UNCHANGED <<messages, ai_result>>
    /\ UNCHANGED <<GITHUB_TOKEN, GEMINI_KEY, now, repo, evals, username, account,
                   headers, repos, page, enhanced_repos, data, portfolio_score,
                   dimension_scores, model, recommendations>>

\* lines 386-390: the answer is stripped of fences and decoded
AIParse ==
    /\ pc = "ai_parse"
    /\ LET text == strip_fences(response)
       IN  IF json_decodes(text)
           THEN /\ ai_result' = json_loads(text)
                /\ pc' = next_stage("ai")
                /\ UNCHANGED messages
           ELSE ai_fails
    /\ response' = NoResponse
    /\ UNCHANGED <<GITHUB_TOKEN, GEMINI_KEY, now, repo, evals, username, account,
                   requests, calls, headers, repos, page, enhanced_repos, data,
                   portfolio_score, dimension_scores, model, recommendations>>

\* line 438: an exception of the generator ends the script run
Recommend ==
    /\ pc = "recommend"
    /\ calls' = Append(calls, "get_actionable_recommendations")
    /\ IF recommendations_raise(dimension_scores)
       THEN /\ pc' = "raised"
            /\ UNCHANGED recommendations
       ELSE /\ recommendations' = get_actionable_recommendations(data, dimension_scores)
            /\ pc' = next_stage("recommend")
    /\ UNCHANGED <<GITHUB_TOKEN, GEMINI_KEY, now, repo, evals, username, account,
                   requests, messages, headers, repos, page, enhanced_repos,
                   data, portfolio_score, dimension_scores, model, response,
                   ai_result>>

\* lines 464-465, 531-532, 727-735: the dashboard subscripts a truthy
\* assessment with 'verdict', 'summary', 'pros' and 'cons'
dashboard_raises(a) ==
    \/ a.type = "list"
    \/ /\ a.type = "dict"
       /\ a.keys # {}
       /\ ~ ({"verdict", "summary", "pros", "cons"} \subseteq a.keys)

\* lines 441-442 and the dashboard after them
Render ==
    /\ pc = "render"
    /\ calls' = Append(calls, "render")
    /\ messages' = Append(messages, "Analysis complete")
    /\ pc' = IF dashboard_raises(ai_result) THEN "raised" ELSE "dashboard"
    /\ UNCHANGED <<GITHUB_TOKEN, GEMINI_KEY, now, repo, evals, username, account,
                   requests, headers, repos, page, enhanced_repos, data,
                   portfolio_score, dimension_scores, model, response,
                   ai_result, recommendations>>

\* the run before the first click
IdleRun ==
    /\ pc = "idle"
    /\ username = ""
    /\ account = NoAccount
    /\ requests = {}
    /\ calls = <<>>
    /\ messages = <<>>
    /\ headers = None
    /\ repos = <<>>
    /\ page = 1
    /\ enhanced_repos = <<>>
    /\ data = Unset
    /\ portfolio_score = 0
    /\ dimension_scores = EmptyDict
    /\ model = None
    /\ response = NoResponse
    /\ ai_result = PyNone
    /\ recommendations = <<>>

\* lines 78-80: the two credentials come from the environment
Init ==
    /\ GITHUB_TOKEN \in {None, "", "ghp_token"}
    /\ GEMINI_KEY \in {None, "key"}
    /\ now = Now0
    /\ repo = [name |-> "r"]
    /\ evals = <<>>
    /\ IdleRun

Next ==
    \/ Click
    \/ FetchUser
    \/ FetchPage
    \/ Enrich
    \/ FetchOrgs
    \/ Dispatch
    \/ Score
    \/ GetModel
    \/ AICall
    \/ AIParse
    \/ Recommend
    \/ Render

Spec == Init /\ [][Next]_vars

(***************************************************************************)
(* The scoring functions on their own: a record is chosen, the clock       *)
(* advances, and the three functions are evaluated on the record.          *)
(***************************************************************************)
\* a record with every signal absent or false
BareRepo ==
    [name |-> "r", readme_exists |-> FALSE, description |-> None,
     homepage |-> None, has_wiki |-> FALSE, has_pages |-> FALSE,
     languages_count |-> 0, has_issues |-> FALSE, has_projects |-> FALSE,
     size |-> 0, stargazers_count |-> 0, open_issues_count |-> 0,
     forks_count |-> 0, watchers_count |-> 0,
     pushed_at |-> Timestamp(Now0 - 400 * TicksPerDay)]

\* ages, in whole days at the start of the clock, around the bucket limits
DaysAgo == {-1, 0, 3, 5, 6, 7, 28, 29, 30, 88, 89, 90, 400}

PushedAts ==
    {Timestamp(Now0 - d * TicksPerDay - o) : d \in DaysAgo, o \in 0..(TicksPerDay - 1)}

DocInputs ==
    {[BareRepo EXCEPT !.readme_exists = a, !.description = b, !.homepage = c,
                      !.has_wiki = d, !.has_pages = e] :
        a \in BOOLEAN, b \in {None, "", "x"}, c \in {None, "", "https://h"},
        d \in BOOLEAN, e \in BOOLEAN}

CodeInputs ==
    {[BareRepo EXCEPT !.languages_count = a, !.has_issues = b, !.has_projects = c,
                      !.size = d, !.stargazers_count = e] :
        a \in {0, 1, 3}, b \in BOOLEAN, c \in BOOLEAN, d \in {0, 120}, e \in {0, 7}}

ActivityInputs ==
    {[BareRepo EXCEPT !.pushed_at = p, !.open_issues_count = a, !.forks_count = b,
                      !.watchers_count = c] :
        p \in PushedAts \cup {NoTimestamp}, a \in {0, 2}, b \in {0, 1}, c \in {0, 4}}

\* records that lack keys
SparseInputs ==
    {[name |-> "r"],
     [name |-> "r", readme_exists |-> TRUE, has_pages |-> TRUE, size |-> 1,
      watchers_count |-> 1],
     [k \in DOMAIN BareRepo \ {"pushed_at"} |-> BareRepo[k]]}

ScoreInputs == DocInputs \cup CodeInputs \cup ActivityInputs \cup SparseInputs

\* one evaluation of the three functions, lines 204-206, and when it was made
Evaluation(r) ==
    [at |-> now,
     doc_score |-> calculate_documentation_score(r),
     code_score |-> calculate_code_quality_score(r),
     activity_score |-> calculate_activity_score(r)]

ScoreInit ==
    /\ GITHUB_TOKEN = None
    /\ GEMINI_KEY = None
    /\ now = Now0
    /\ repo \in ScoreInputs
    /\ evals = <<>>
    /\ IdleRun

\* time passes
Tick ==
    /\ now < Now0 + MaxElapsed
    /\ now' = now + 1
    /\ UNCHANGED <<repo, evals>>
    /\ UNCHANGED runVars

\* the three functions are applied to the record
Evaluate ==
    /\ Len(evals) < MaxEvals
    /\ evals' = Append(evals, Evaluation(repo))
    /\ UNCHANGED <<now, repo>>
    /\ UNCHANGED runVars

ScoreNext ==
    \/ Tick
    \/ Evaluate

SpecScore == ScoreInit /\ [][ScoreNext]_vars

(***************************************************************************)
(* The documentation score on its own: a record is chosen and scored, one  *)
(* of its five signals that is absent or false is switched on, and the     *)
(* record is scored again.                                                 *)
(***************************************************************************)
\* the keys lines 102-106 read
DocSignals == {"readme_exists", "description", "homepage", "has_wiki", "has_pages"}

\* whether the test of the signal's line (102-106) succeeds on the record
signal_present(r, k) ==
    IF k \in {"description", "homepage"} THEN Truthy(Get(r, k, None)) ELSE Flag(r, k)

\* the record with the signal present, the other keys as they were
switch_on(r, k) ==
    (k :> (IF k \in {"description", "homepage"} THEN "text" ELSE TRUE)) @@ r

DocInit ==
    /\ GITHUB_TOKEN = None
    /\ GEMINI_KEY = None
    /\ now = Now0
    /\ repo \in DocInputs \cup SparseInputs
    /\ evals = <<>>
    /\ IdleRun

\* the record is scored
EvaluateDoc ==
    /\ evals = <<>>
    /\ evals' = <<Evaluation(repo)>>
    /\ UNCHANGED <<now, repo>>
    /\ UNCHANGED runVars

\* one absent or false signal is switched on and the record is scored again
SwitchOn ==
    /\ Len(evals) = 1
    /\ \E k \in DocSignals :
        /\ ~ signal_present(repo, k)
        /\ repo' = switch_on(repo, k)
        /\ evals' = Append(evals, Evaluation(switch_on(repo, k)))
    /\ UNCHANGED now
    /\ UNCHANGED runVars

DocNext ==
    \/ EvaluateDoc
    \/ SwitchOn

SpecDoc == DocInit /\ [][DocNext]_vars

(***************************************************************************)
(* The aggregate score and the recommendation generator on their own: a    *)
(* bundle (or a sentinel) and a dimension map are chosen, and the two      *)
(* functions are applied as lines 431 and 438 apply them.                  *)
(***************************************************************************)
MaxList == 4

ScoredKinds == {"poor", "rich", "undocumented", "unnoticed"}

\* an enriched record as line 207 leaves it, with the attributes lines 223-325 read
ScoredRepo(kind, j) ==
    CASE kind = "poor" ->
            [name |-> RepoName(j), doc_score |-> 0, code_score |-> 0,
             activity_score |-> 10, stargazers_count |-> 0, forks_count |-> 0,
             languages |-> {}]
      [] kind = "rich" ->
            [name |-> RepoName(j), doc_score |-> 100, code_score |-> 100,
             activity_score |-> 100, stargazers_count |-> 300, forks_count |-> 7,
             languages |-> {"Python", "Go", "C", "Rust", "Java", "Shell"}]
      [] kind = "undocumented" ->
            [name |-> RepoName(j), doc_score |-> 20, code_score |-> 50,
             activity_score |-> 60, stargazers_count |-> 0, forks_count |-> 2,
             languages |-> {"Go", "C"}]
      [] OTHER ->
            [name |-> RepoName(j), doc_score |-> 55, code_score |-> 35,
             activity_score |-> 30, stargazers_count |-> 0, forks_count |-> 0,
             languages |-> {"Python"}]

ScoredLists ==
    {[j \in DOMAIN kinds |-> ScoredRepo(kinds[j], j)] :
        kinds \in UNION {[1..n -> ScoredKinds] : n \in 0..MaxList}}

\* what line 423 can hold: a bundle, a failure sentinel, or no data
PortfolioInputs ==
    {Bundle("u", rs, orgs) : rs \in ScoredLists, orgs \in OrgLists}
    \cup {Sentinel("ERROR"), Sentinel("NO_TOKEN"), Sentinel("none")}

DimensionMap(doc, act) ==
    [k \in DimensionNames |->
        CASE k = "Documentation Quality" -> doc
          [] k = "Activity Consistency" -> act
          [] OTHER -> 500]

\* dimension maps as lines 276-283 build them, in tenths, on both sides of the
\* limits of lines 291 and 299
DimensionInputs ==
    {DimensionMap(0, 0), DimensionMap(599, 499), DimensionMap(600, 500),
     DimensionMap(599, 500), DimensionMap(1000, 1000)}

PortfolioInit ==
    /\ GITHUB_TOKEN = None
    /\ GEMINI_KEY = None
    /\ now = Now0
    /\ repo = [name |-> "r"]
    /\ evals = <<>>
    /\ pc = "input"
    /\ username = ""
    /\ account = NoAccount
    /\ requests = {}
    /\ calls = <<>>
    /\ messages = <<>>
    /\ headers = None
    /\ repos = <<>>
    /\ page = 1
    /\ enhanced_repos = <<>>
    /\ data \in PortfolioInputs
    /\ portfolio_score = 0
    /\ dimension_scores \in DimensionInputs
    /\ model = None
    /\ response = NoResponse
    /\ ai_result = PyNone
    /\ recommendations = <<>>

\* line 431; the divisions of the call are recorded in evals
ApplyScore ==
    /\ pc = "input"
    /\ calls' = Append(calls, "calculate_portfolio_score")
    /\ portfolio_score' \in calculate_portfolio_score(data).scores
    /\ dimension_scores' = calculate_portfolio_score(data).dims
    /\ evals' = <<[divisions |-> calculate_portfolio_score(data).divisions]>>
    /\ pc' = "scored"
    /\ UNCHANGED <<GITHUB_TOKEN, GEMINI_KEY, now, repo, username, account,
                   requests, messages, headers, repos, page, enhanced_repos,
                   data, model, response, ai_result, recommendations>>

\* line 438, on the chosen map or on the map line 431 returned; the run
\* reaches the line with a bundle only (lines 423-428)
ApplyRecommend ==
    /\ pc \in {"input", "scored"}
    /\ data.tag = "bundle"
    /\ calls' = Append(calls, "get_actionable_recommendations")
    /\ IF recommendations_raise(dimension_scores)
       THEN /\ pc' = "raised"
            /\ UNCHANGED recommendations
       ELSE /\ recommendations' = get_actionable_recommendations(data, dimension_scores)
            /\ pc' = "recommended"
    /\ UNCHANGED <<GITHUB_TOKEN, GEMINI_KEY, now, repo, evals, username, account,
                   requests, messages, headers, repos, page, enhanced_repos,
                   data, portfolio_score, dimension_scores, model, response,
                   ai_result>>

PortfolioNext ==
    \/ ApplyScore
    \/ ApplyRecommend

SpecPortfolio == PortfolioInit /\ [][PortfolioNext]_vars

(***************************************************************************)
(* Properties.                                                             *)
(***************************************************************************)
Called(stage) == \E i \in DOMAIN calls : calls[i] = stage
Shown(message) == \E i \in DOMAIN messages : messages[i] = message
GithubRequests == {r \in requests : r.host = "github"}
ModelRequests == {r \in requests : r.host = "genai"}
AfterAssessment ==
    /\ Called("analyze_with_ai")
    /\ pc \in {"recommend", "render", "dashboard", "raised"}

\* C1: the accumulated repository list, and the list of the returned bundle,
\* never hold more than 50 repositories.
C1_ReposWithinCap ==
    /\ Len(repos) <= repo_cap
    /\ data.tag = "bundle" => Len(data.repos) <= repo_cap

\* C2: an enrichment pass over a repository whose pushed_at is well formed
\* never ends the fetch with the ERROR sentinel, whatever the README, languages
\* and commit-activity calls do.
C2_EnrichmentNeverAborts ==
    [][(/\ pc = "enrich"
        /\ Len(enhanced_repos) < Len(repos)
        /\ strptime_exc(Get(repos[Len(enhanced_repos) + 1], "pushed_at",
                            DefaultPushedAt)) = "none")
       => data'.tag # "ERROR"]_vars

\* C3: what analyze_with_ai returned is null or an object with every required
\* key of the assessment.
C3_AssessmentCompleteOrNull ==
    AfterAssessment =>
        \/ ai_result = PyNone
        \/ ai_result.type = "dict" /\ RequiredKeys \subseteq ai_result.keys

\* C4: in a run whose fetcher returned a bundle no stage raises before the
\* four artifacts are handed to the presentation layer.
C4_NoStageRaises == (data.tag = "bundle" /\ pc = "raised") => Called("render")

\* C5: without the language-model credential no score, no recommendation and
\* no dashboard is produced.
C5_NoAnalysisWithoutModelKey ==
    ~ Truthy(GEMINI_KEY) =>
        /\ ~ Called("calculate_portfolio_score")
        /\ ~ Called("get_actionable_recommendations")
        /\ ~ Called("render")

\* C5, amended: without the language-model credential get_working_model returns
\* None, no request goes to the language-model API, analyze_with_ai returns
\* null without reporting an error, and the run goes on: it is stopped only by
\* an empty username or a sentinel of the fetcher, and the recommendation stage
\* is entered after the assessment.
C5_MissingModelKeyDegrades ==
    ~ Truthy(GEMINI_KEY) =>
        /\ ModelRequests = {}
        /\ Called("get_working_model") => model = None
        /\ ~ Shown("AI Analysis Error")
        /\ Called("analyze_with_ai") =>
                /\ ai_result = PyNone
                /\ Called("calculate_portfolio_score")
                /\ AfterAssessment
        /\ pc = "stopped" => username = "" \/ data.tag \in {"ERROR", "NO_TOKEN"}

C5_Witness ==
    /\ ~ Truthy(GEMINI_KEY)
    /\ pc = "dashboard"
    /\ ai_result = PyNone
    /\ Called("get_actionable_recommendations")

\* C6: after the fetcher returned NO_TOKEN or ERROR none of the later stages is
\* invoked, the run stops, and each sentinel shows its own message.
C6_SentinelStopsRun ==
    /\ data.tag \in {"ERROR", "NO_TOKEN"} =>
            /\ pc \in {"dispatch", "stopped"}
            /\ ~ Called("calculate_portfolio_score")
            /\ ~ Called("get_working_model")
            /\ ~ Called("analyze_with_ai")
            /\ ~ Called("get_actionable_recommendations")
    /\ (pc = "stopped" /\ data.tag = "ERROR") =>
            Shown(UserNotFoundMessage) /\ ~ Shown(NoTokenMessage)
    /\ (pc = "stopped" /\ data.tag = "NO_TOKEN") =>
            Shown(NoTokenMessage) /\ ~ Shown(UserNotFoundMessage)
    /\ UserNotFoundMessage # NoTokenMessage

C6_Witness ==
    /\ pc = "stopped"
    /\ data.tag = "ERROR"
    /\ Shown(UserNotFoundMessage)

\* C7: without the repository-host credential the fetcher returns NO_TOKEN and
\* no request has gone to the repository host; every request to the repository
\* host is made after the credential check passed and carries the credential.
C7_NoUnauthenticatedRequest ==
    /\ \A r \in GithubRequests :
            /\ Truthy(GITHUB_TOKEN)
            /\ Truthy(r.authorization)
            /\ r.authorization = GITHUB_TOKEN
    /\ (~ Truthy(GITHUB_TOKEN) /\ Called("get_enhanced_github_data")) =>
            data.tag = "NO_TOKEN"
    /\ data.tag = "NO_TOKEN" => GithubRequests = {}

C7_Witness ==
    /\ data.tag = "NO_TOKEN"
    /\ GITHUB_TOKEN = ""
    /\ Request("lottie", "animation", None) \in requests
    /\ GithubRequests = {}

\* C8: the recommendation stage has been invoked before the AI assessment
\* call starts.
C8_RecommendBeforeAssessment ==
    Called("analyze_with_ai") => Called("get_actionable_recommendations")

StageOrder ==
    <<"get_enhanced_github_data", "calculate_portfolio_score",
      "get_working_model", "analyze_with_ai", "get_actionable_recommendations",
      "render">>

\* C8, amended: the stages of a run are invoked in the order fetch, score,
\* model selection, AI assessment, recommendation, render; the assessment has
\* returned before the recommendation stage starts.
C8_StagesInCodeOrder ==
    /\ Len(calls) <= Len(StageOrder)
    /\ calls = SubSeq(StageOrder, 1, Len(calls))
    /\ Called("get_actionable_recommendations") => AfterAssessment

C8_Witness == calls = StageOrder

\* C9: any two evaluations of the three functions on the same record agree.
C9_SameScoresAtAnyTime ==
    \A i \in DOMAIN evals, j \in DOMAIN evals :
        /\ evals[i].doc_score = evals[j].doc_score
        /\ evals[i].code_score = evals[j].code_score
        /\ evals[i].activity_score = evals[j].activity_score

\* whole days from the record's last push to the instant t
ElapsedDays(t) == (t - Get(repo, "pushed_at", DefaultPushedAt).t) \div TicksPerDay

\* C9, amended: two evaluations on the same record agree on the documentation
\* score and on the code-quality score; they agree on the activity score when
\* the same number of whole days has passed since the last push.
C9_SameScoresOnSameDay ==
    \A i \in DOMAIN evals, j \in DOMAIN evals :
        /\ evals[i].doc_score = evals[j].doc_score
        /\ evals[i].code_score = evals[j].code_score
        /\ ElapsedDays(evals[i].at) = ElapsedDays(evals[j].at)
                => evals[i].activity_score = evals[j].activity_score

C9_Witness ==
    /\ Len(evals) = 2
    /\ evals[1].at # evals[2].at
    /\ ElapsedDays(evals[1].at) = ElapsedDays(evals[2].at)
    /\ ElapsedDays(evals[2].at) = 6
    /\ evals[2].activity_score = [exc |-> "none", value |-> 40]

\* C10: each of the three sub-scores is an integer from 0 to 100.
C10_SubScoresInRange ==
    \A i \in DOMAIN evals :
        /\ evals[i].doc_score \in 0..100
        /\ evals[i].code_score \in 0..100
        /\ evals[i].activity_score.exc = "none"
                => evals[i].activity_score.value \in 0..100

C10_Witness ==
    \E i \in DOMAIN evals :
        /\ evals[i].activity_score = [exc |-> "none", value |-> 100]
        /\ evals[i].doc_score = 0

RECURSIVE SetMin(_)
SetMin(S) ==
    LET x == CHOOSE y \in S : TRUE
    IN  IF S = {x} THEN x ELSE min(x, SetMin(S \ {x}))

RECURSIVE SetMax(_)
SetMax(S) ==
    LET x == CHOOSE y \in S : TRUE
    IN  IF S = {x} THEN x ELSE -min(-x, -SetMax(S \ {x}))

ScoredNonEmpty ==
    /\ pc = "scored"
    /\ data.tag = "bundle"
    /\ data.repos # <<>>

\* C11: for a bundle whose repository list is not empty, the six weights add
\* up to 1, each of the six dimension values is between 0 and 100, and the
\* final score is between 0 and 100 (and, as a weighted mean, between the
\* smallest and the largest dimension value).  Values are in tenths.
C11_ScoreWithinRange ==
    ScoredNonEmpty =>
        /\ sum_weights(DimensionNames) = 100
        /\ DOMAIN dimension_scores = DimensionNames
        /\ \A k \in DimensionNames : dimension_scores[k] \in 0..1000
        /\ portfolio_score \in 0..1000
        /\ portfolio_score >= SetMin({dimension_scores[k] : k \in DimensionNames})
        /\ portfolio_score <= SetMax({dimension_scores[k] : k \in DimensionNames})

\* a list whose stars and forks reach the cap of the impact dimension and whose
\* languages reach the cap of the technical-depth dimension
C11_Witness ==
    /\ ScoredNonEmpty
    /\ dimension_scores["Project Impact"] = 1000
    /\ dimension_scores["Technical Depth"] = 400
    /\ dimension_scores["Documentation Quality"] < 1000
    /\ portfolio_score > 0

\* C12: for a bundle whose repository list is empty, for a failure sentinel and
\* for no data, calculate_portfolio_score returns the score 0 and the empty
\* map, and no division has been performed on the way.
C12_EmptyGivesZero ==
    (pc = "scored" /\ (data.tag # "bundle" \/ data.repos = <<>>)) =>
        /\ portfolio_score = 0
        /\ dimension_scores = EmptyDict
        /\ evals = <<[divisions |-> 0]>>

\* a bundle of a user without repositories has been scored
C12_Witness ==
    /\ pc = "scored"
    /\ data.tag = "bundle"
    /\ data.repos = <<>>
    /\ data.orgs # <<>>
    /\ Called("calculate_portfolio_score")
    /\ evals # <<>>

\* The rules in evaluation order: slot 1 is the General documentation rule,
\* slot 2 the General activity rule, slots 2j+1 and 2j+2 the missing
\* documentation rule and the low impact rule of the j-th repository.
RuleSlots == 1..(2 * Len(data.repos) + 2)

RuleFires(slot) ==
    IF slot = 1 THEN dimension_scores["Documentation Quality"] < 600
    ELSE IF slot = 2 THEN dimension_scores["Activity Consistency"] < 500
    ELSE LET r == data.repos[(slot - 1) \div 2]
         IN  IF slot % 2 = 1 THEN r.doc_score < 40
             ELSE r.stargazers_count = 0 /\ r.forks_count = 0

RuleEntry(slot) ==
    IF slot = 1 THEN Recommendation("General", "Poor Documentation", "High")
    ELSE IF slot = 2 THEN Recommendation("General", "Inconsistent Activity", "Medium")
    ELSE LET r == data.repos[(slot - 1) \div 2]
         IN  IF slot % 2 = 1 THEN Recommendation(r.name, "Missing Documentation", "High")
             ELSE Recommendation(r.name, "Low Impact", "Medium")

\* the first min(5, n) of the n rules that fire, in slot order
FirstFiveFiring ==
    LET firing == {t \in RuleSlots : RuleFires(t)}
        nth(i) == CHOOSE t \in firing : Cardinality({u \in firing : u <= t}) = i
    IN  [i \in 1..min(5, Cardinality(firing)) |-> RuleEntry(nth(i))]

\* when the generator returns, it returns the first five firing rules in order
RecommendationsAreFirstFive ==
    pc = "recommended" =>
        /\ recommendations = FirstFiveFiring
        /\ Len(recommendations) <= 5

\* C13: whatever the bundle and the dimension map, get_actionable_recommendations
\* returns the first min(5, n) of the n qualifying recommendations in evaluation
\* order.
C13_FirstFiveInOrder ==
    Called("get_actionable_recommendations") =>
        /\ pc = "recommended"
        /\ recommendations = FirstFiveFiring
        /\ Len(recommendations) <= 5

\* more than five rules fire and five recommendations are returned
RecommendationsCut ==
    /\ pc = "recommended"
    /\ Cardinality({t \in RuleSlots : RuleFires(t)}) > 5
    /\ Len(recommendations) = 5

\* C14: switching one of the five documentation signals of a record from
\* absent or false to present, the others kept, never decreases the
\* documentation score.
C14_DocScoreMonotonic ==
    Len(evals) = 2 => evals[2].doc_score >= evals[1].doc_score

\* the last missing signal of a record is switched on and the score rises to 100
C14_Witness ==
    /\ Len(evals) = 2
    /\ evals[1].doc_score = 85
    /\ evals[2].doc_score = 100
    /\ \A k \in DocSignals : signal_present(repo, k)

\* the number of the three bonus counts of the record that are positive
Bonuses ==
    Cardinality({k \in {"open_issues_count", "forks_count", "watchers_count"} :
                    Get(repo, k, 0) > 0})

\* C15: for a record whose pushed_at is well formed, the activity score is the
\* amount of the bucket of the whole days since the push (under 7 days 40,
\* under 30 days 30, under 90 days 20, otherwise 10) plus 20 for each of open
\* issues, forks and watchers that is positive, and at most 100.
C15_ActivityIsBucketPlusBonuses ==
    \A i \in DOMAIN evals :
        evals[i].activity_score.exc = "none" =>
            LET days == ElapsedDays(evals[i].at)
                bucket == CASE days < 7 -> 40
                            [] days >= 7 /\ days < 30 -> 30
                            [] days >= 30 /\ days < 90 -> 20
                            [] OTHER -> 10
                total == bucket + 20 * Bonuses
            IN  evals[i].activity_score.value = IF total > 100 THEN 100 ELSE total

\* a record pushed 3 days ago, without open issues, forks or watchers, scores 40
C15_Witness ==
    \E i \in DOMAIN evals :
        /\ strptime_exc(Get(repo, "pushed_at", DefaultPushedAt)) = "none"
        /\ ElapsedDays(evals[i].at) = 3
        /\ Bonuses = 0
        /\ evals[i].activity_score = [exc |-> "none", value |-> 40]

\* the step in which the model call raises: the request is made and the
\* adapter does not get to the answer's text
ModelCallRaises ==
    /\ pc = "ai"
    /\ Truthy(model)
    /\ Request("genai", "generate_content", None) \in requests'
    /\ pc' # "ai_parse"

\* the step in which the answer, stripped of its fences, does not decode
AnswerDoesNotDecode ==
    /\ pc = "ai_parse"
    /\ ~ json_decodes(strip_fences(response))

\* C16: when the model call raises, or the answer stripped of its fences does
\* not decode as JSON, analyze_with_ai shows the error message and returns
\* null, and the run goes on to its next stage.
C16_AssessmentFailureIsContained ==
    [][(ModelCallRaises \/ AnswerDoesNotDecode) =>
            /\ messages' = Append(messages, "AI Analysis Error")
            /\ ai_result' = PyNone
            /\ pc' = "recommend"]_vars

\* after a failed assessment the run has reached the dashboard, the error is
\* shown once and there is no assessment to show
C16_Witness ==
    /\ pc = "dashboard"
    /\ Called("render")
    /\ messages = <<"AI Analysis Error", "Analysis complete">>
    /\ ai_result = PyNone
    /\ recommendations # <<>>

\* the repository the next enrichment step works on
NextListed == repos[Len(enhanced_repos) + 1]

\* an enrichment step on the first repository of a run that has no usable
\* pushed_at, in which the three enrichment requests are made
EnrichesUnusablePushedAt ==
    /\ pc = "enrich"
    /\ Len(enhanced_repos) < Len(repos)
    /\ strptime_exc(Get(NextListed, "pushed_at", DefaultPushedAt)) # "none"
    /\ github_get("commit_activity", headers) \notin requests
    /\ github_get("commit_activity", headers) \in requests'

\* C17: a repository without a usable pushed_at (the key missing, or the value
\* null) is scored as a stale repository, 10 plus 20 for each positive bonus
\* count, and the fetch goes on with the repository in its list.
C17_UnusablePushedAtIsStale ==
    [][EnrichesUnusablePushedAt =>
            /\ data'.tag # "ERROR"
            /\ Len(enhanced_repos') = Len(enhanced_repos) + 1
            /\ enhanced_repos'[Len(enhanced_repos')].name = NextListed.name
            /\ enhanced_repos'[Len(enhanced_repos')].activity_score =
                    10 + 20 * Cardinality(
                        {k \in {"open_issues_count", "forks_count", "watchers_count"} :
                            Get(NextListed, k, 0) > 0})]_vars

====
